---- MODULE Spec2Model ----
(***************************************************************************)
(* Session persistence and connection lifecycle of the HyperWa userbot.    *)
(*                                                                         *)
(* The repository carries several implementations of the same two pieces:  *)
(*   - the bot class (Core/bot.js second class, part_005, part_006,        *)
(*     part_007), selected here by botImpl;                                *)
(*   - useMongoAuthState (part_003 debounced, part_004 direct without a    *)
(*     catch, utils/mongoAuthState.js second function, direct with a       *)
(*     catch), selected here by authImpl.                                  *)
(* Both are fixed for a run.  Every await of the source is a point where   *)
(* other handlers, timers and continuations may run, so each awaited       *)
(* stretch of a handler is one action.                                     *)
(***************************************************************************)
EXTENDS Integers, Sequences, FiniteSets, Bags, TLC

\* ------------------------------------------------------------------ bounds
\* close events the library may emit in one run of Spec
MaxCloses == 1
\* close events the library may emit in one run of SpecBackoff
MaxBackoffCloses == 7
\* creds.update events the library may emit in one run
MaxUpdates == 2
\* injected failures (database, socket construction) in one run
MaxFaults == 1
\* firings of the 30 s connection timeout of part_007 in one run
MaxTimeouts == 1
\* events and failures of all kinds together in one run of Spec
MaxEvents == 3
\* key files the library may write in one run of SpecRestart
MaxKeyWrites == 2
\* restarts of the process in one run of SpecRestart
MaxRestarts == 1
\* QR payloads the library reports in one run of Spec
MaxQrs == 1
\* calls of the key store accessor in one run of SpecKeys
MaxKeyOps == 3
\* calls of connectDb, and connects that fail, in one run of SpecDb
MaxDbCalls == 4
MaxDbFaults == 1
\* options.cacheSize of the MongoStore, and the calls of upsertMessage, in one run of
\* SpecStore
cacheSize == 3
MaxUpserts == 4
\* executions of handleCommand in one run of SpecHandler
MaxCommands == 2
\* calls of MongoConfig.set, and writes that fail, in one run of SpecConfig
MaxConfigSets == 3
MaxConfigFaults == 1

\* --------------------------------------------------------------- constants
BaseReconnectInterval == 1000
maxReconnectInterval == 30000
InitRetryDelay == 5000
FixedReconnectDelay == 5000
DebounceInterval == 10000
LoggedOut == 401
ConnectionClosed == 428
NoStatusCode == 0

BotImpls == {"bot", "part_005", "part_006", "part_007"}
AuthImpls == {"debounced", "nocatch", "direct"}
CloseCodes == {LoggedOut, ConnectionClosed, NoStatusCode}

Min(a, b) == IF a < b THEN a ELSE b

\* ------------------------------------------------------------- file system
CREDS_PATH == "auth_info/creds.json"
KeyPaths == {"auth_info/keys/session-1.json", "auth_info/keys/pre-key-1.json"}
AuthPaths == {CREDS_PATH} \cup KeyPaths

MandatoryFields == {"noiseKey", "signedIdentityKey", "signedPreKey", "registrationId"}

\* the content of a file: a version of the credential data and the fields it holds
NoFile == [ver |-> -1, fields |-> {}]
KeyContent == [ver |-> 0, fields |-> {"session"}]
Creds(v, fs) == [ver |-> v, fields |-> fs]

EmptyDir == [p \in AuthPaths |-> NoFile]
pathExists(dir, p) == dir[p] # NoFile
IsEmptyDir(dir) == \A p \in AuthPaths : dir[p] = NoFile

\* a tar archive: the entries it holds, or bytes that are no archive at all
Malformed == [ok |-> FALSE, entries |-> {}]
NoTar == [ok |-> FALSE, entries |-> {<<"absent", NoFile>>}]
Archive(es) == [ok |-> TRUE, entries |-> es]

\* an archiver that packs creds.json alone (a faulty variant, used to test
\* ArchiveRoundTrip)
TarCreateCredsOnly(dir) == [ok |-> TRUE, entries |-> {<<CREDS_PATH, dir[CREDS_PATH]>>}]

\* tar.c({file: AUTH_TAR, cwd: "."}, ["auth_info"]): one entry per existing file
TarCreate(dir) == Archive({<<p, dir[p]>> : p \in {q \in AuthPaths : pathExists(dir, q)}})

\* tar.x({file: AUTH_TAR, C: "."}): every entry overwrites the file of its path,
\* files the archive does not name are left as they are
TarExtract(ar, dir) ==
    [p \in AuthPaths |->
        IF \E e \in ar.entries : e[1] = p
        THEN (CHOOSE e \in ar.entries : e[1] = p)[2]
        ELSE dir[p]]

\* data.length, counted in blocks of 512 bytes: a header block and a data block for each
\* entry and two closing blocks; bytes that are no archive are one block
ByteLength(ar) == IF ar.ok THEN 2 * Cardinality(ar.entries) + 2 ELSE 1
\* the size field of a document that has none
NoSize == -1

\* the documents of the "auth" collection are keyed by _id
SessionDoc(ar, size) == [id |-> "session", archive |-> ar, size |-> size]
findOne(c) == {d \in c : d.id = "session"}
hasSession(c) == findOne(c) # {}
archiveOf(session) == (CHOOSE d \in session : TRUE).archive
\* a deleteOne that removes nothing (a faulty variant, used to test
\* RestoreIdempotentUpToAbsent)
deleteNone(c) == c
deleteOne(c) == {d \in c : d.id # "session"}
\* a clear that rejects when it finds nothing to delete (a faulty variant, used to test
\* ClearIdempotent)
ClearThrowsOnMissing(c) == ~hasSession(c)
\* deleteOne resolves with deletedCount 0 when no document matches; none of the callers
\* looks at the count
ClearThrows(c) == FALSE
storedSize(c) == IF hasSession(c) THEN (CHOOSE d \in findOne(c) : TRUE).size ELSE NoSize

\* what a previous run of the process may have left in the collection
ValidArchive == Archive({<<CREDS_PATH, Creds(0, MandatoryFields)>>}
                        \cup {<<k, KeyContent>> : k \in KeyPaths})
NoCredsArchive == Archive({<<k, KeyContent>> : k \in KeyPaths})
IncompleteArchive == Archive({<<CREDS_PATH, Creds(0, MandatoryFields \ {"registrationId"})>>}
                             \cup {<<k, KeyContent>> : k \in KeyPaths})
VARIABLES
    botImpl,            \* which bot class is deployed
    authImpl,           \* which useMongoAuthState is deployed
    proc,               \* "running" or "exited"
    exitCause,          \* why process.exit was called
    phase,              \* "constructed", "initializing", "ready" (signal handlers installed)
    isShuttingDown,     \* this.isShuttingDown
    sock,               \* this.sock: "null", "connecting", "open", "closed"
    sockUser,           \* this.sock.user is set
    reconnectInterval,  \* this.reconnectInterval
    timers,             \* bag of pending setTimeout callbacks
    starts,             \* bag of startSock invocations in progress
    coll,               \* the "auth" collection
    authDir,            \* the files under ./auth_info
    authTar,            \* the file auth_backup.tar
    persists,           \* bag of archive-and-upload runs in progress
    gen,                \* the saveCreds closure the live socket calls
    mongoSave,          \* that closure is the one of useMongoAuthState, not the fallback
    pcLogout,           \* progress of the logout branch of the close handler
    pcShutdown,         \* progress of the SIGINT handler
    pcOpen,             \* progress of the open branch of the connection.update handler
    stateKeys,          \* state.keys of the document auth state: property name -> value
    keyHist,            \* the records handed to keys.set and the last keys.get
    mongo,              \* src/utils/db.js: client, db, the clients made, the calls
    config,             \* MongoConfig: cache, the bot_settings collection, the last set
    cmd,                \* MessageHandler.handleCommand: the message, the settings, progress
    store,              \* MongoStore: cache.messages by chat, in insertion order
    budget,             \* events and failures the environment may still produce
    hist                \* observations the properties are stated over

vars == <<botImpl, authImpl, proc, exitCause, phase, isShuttingDown, sock, sockUser,
          reconnectInterval, timers, starts, coll, authDir, authTar, persists, gen,
          mongoSave, pcLogout, pcShutdown, pcOpen, stateKeys, keyHist, budget, hist,
          mongo, config, cmd, store>>

\* the state of the modules the bot calls into, which the steps of the bot leave alone
modVars == <<mongo, config, cmd, store>>

\* ------------------------------------------------------------------ helpers
\* $set of mongoAuthState.js names archive, timestamp and size; the $set of part_003 and
\* of part_004 names archive and timestamp, so the size a document has is left as it is
SizeField(old, ar) == IF authImpl = "direct" THEN ByteLength(ar) ELSE old

\* a save that inserts a new document each time (a faulty variant, used to test
\* AtMostOneSession)
insertOne(c, ar) == c \cup {SessionDoc(ar, SizeField(storedSize(c), ar))}
\* updateOne({_id: "session"}, {$set: {archive: data, ...}}, {upsert: true})
updateOneUpsert(c, ar) ==
    {d \in c : d.id # "session"} \cup {SessionDoc(ar, SizeField(storedSize(c), ar))}

\* what an earlier run of the same code may have left in the collection
InitialCollections ==
    {{}} \cup {{SessionDoc(ar, SizeField(NoSize, ar))} :
                  ar \in {ValidArchive, NoCredsArchive, IncompleteArchive, Malformed}}

\* between the return of shutdown() and process.exit(0) of the signal handler only
\* continuations that are already queued run: no timer fires, no I/O completes
Alive == proc = "running"
Running == Alive /\ pcShutdown # "exit"

Timer(kind, g, delay) == [kind |-> kind, gen |-> g, delay |-> delay]
One(x) == SetToBag({x})
PendingTimers(kind) == {t \in BagToSet(timers) : t.kind = kind}
\* clearTimeout(handle): the handle of closure g names every timer g still has pending
ClearTimers(bag, kind, g) ==
    [t \in {u \in BagToSet(bag) : ~(u.kind = kind /\ u.gen = g)} |-> bag[t]]

NewRun(first) ==
    [pc |-> "begin", first |-> first, session |-> {}, result |-> "none", clean |-> FALSE]
StartRuns(pc) == {r \in BagToSet(starts) : r.pc = pc}
Step(r, r2) == (starts (-) One(r)) (+) One(r2)

NoLogout == [stage |-> "none", cause |-> "none"]

\* the value of a property an object does not have, and the object without properties
Undefined == [undefined |-> TRUE]
NoKeys == [k \in {} |-> Undefined]
\* no call of the key store accessor has been made
KeyHistIdle == [written |-> NoKeys, asked |-> << >>, ret |-> Undefined, ops |-> 0]
KeyStoreIdle == stateKeys = NoKeys /\ keyHist = KeyHistIdle

\* the callers of connectDb, and a caller that has not called
DbCallers == {"initialize", "useMongoAuthState", "logoutCleanup"}
NoCall == [pc |-> "idle", on |-> 0, got |-> 0, gotStatus |-> "none"]
\* let client; let db; -- nothing is connected when the module is loaded
MongoIdle(impl) ==
    [impl |-> impl, client |-> 0, db |-> 0, status |-> << >>,
     calls |-> [c \in DbCallers |-> NoCall], n |-> 0, faults |-> 0]

\* this.cache = new Map() filled by loadAllSettings() from the settings stored
ConfigIdle(settings) ==
    [cache |-> settings, store |-> settings, pending |-> << >>,
     last |-> [key |-> << >>, value |-> Undefined, before |-> Undefined,
               outcome |-> "none"],
     n |-> 0, faults |-> 0]

\* no command has been received: the settings of the bot, the flag of the presence
\* module, no typing indicator shown
HandlerIdle(mode, blockedUsers, rateLimiting, typingIndicators) ==
    [pc |-> "idle", user |-> "none", fromMe |-> FALSE, command |-> "none",
     params |-> "none", mode |-> mode, blockedUsers |-> blockedUsers,
     rateLimiting |-> rateLimiting, enableTypingIndicators |-> typingIndicators,
     composing |-> FALSE, started |-> FALSE, permitted |-> "unknown", path |-> "none",
     n |-> 0]

\* new MongoStore(): cache.messages is an empty Map
StoreIdle ==
    [messages |-> [chatId \in {} |-> << >>], initialized |-> FALSE, n |-> 0,
     last |-> [chatId |-> "none", inserted |-> << >>, kept |-> << >>]]

\* every module but m is as it is when nothing has called it
IdleExcept(m) ==
    /\ IF m = "db" THEN TRUE ELSE mongo = MongoIdle("client-guard")
    /\ IF m = "config" THEN TRUE ELSE config = ConfigIdle(NoKeys)
    /\ IF m = "handler" THEN TRUE ELSE cmd = HandlerIdle("public", {}, FALSE, TRUE)
    /\ IF m = "store" THEN TRUE ELSE store = StoreIdle
ModulesIdle == IdleExcept("none")

\* a failure may be injected while the budget lasts
CanSpend(kind) == budget[kind] > 0 /\ budget.events > 0
Spent(kind) == [budget EXCEPT ![kind] = @ - 1, !.events = @ - 1]
Outcomes == IF CanSpend("faults") THEN {TRUE, FALSE} ELSE {TRUE}
Spend(ok) == IF ok THEN budget ELSE Spent("faults")
Faulted == budget.faults < MaxFaults

\* process.exit: nothing of the process runs afterwards
Exit(cause) ==
    /\ proc' = "exited"
    /\ exitCause' = cause
    /\ timers' = EmptyBag
    /\ starts' = EmptyBag
    /\ persists' = EmptyBag

\* does the ev.process handler of this bot catch what saveCreds throws
HandlerCatches == botImpl \in {"part_005", "part_007"}

\* ---------------------------------------------------------------- backoff
\* a doubling that forgets the cap (a faulty variant, used to test BackoffMonotonicity)
NextIntervalUncapped(ri) == ri * 2
\* this.reconnectInterval = Math.min(this.reconnectInterval * 2, this.maxReconnectInterval)
NextInterval(ri) == Min(ri * 2, maxReconnectInterval)

\* an open handler that forgets the reset (a faulty variant, used to test BackoffReset)
IntervalAfterOpenKept(ri) == ri
\* this.reconnectInterval = 1000
IntervalAfterOpen(ri) == BaseReconnectInterval

\* the delay the close handler hands to setTimeout
ReconnectDelay == IF botImpl = "bot" THEN reconnectInterval ELSE FixedReconnectDelay

\* a classification that reconnects only on a close that carries a status code (a
\* faulty variant, used to test TransientCloseReconnects)
CleanupUnlessCoded(code, shutting) == code # ConnectionClosed

\* does the close handler run the session cleanup and process.exit(1)
ClearsOnShutdownClose(code, shutting) == code = LoggedOut \/ shutting
TakesCleanupBranch(code, shutting) ==
    IF botImpl = "part_007" THEN ClearsOnShutdownClose(code, shutting)
    ELSE code = LoggedOut

\* -------------------------------------------------------------------- Init
InitCommon ==
    /\ proc = "running"
    /\ exitCause = "none"
    /\ phase = "constructed"
    /\ isShuttingDown = FALSE
    /\ sock = "null"
    /\ sockUser = FALSE
    /\ reconnectInterval = BaseReconnectInterval
    /\ timers = EmptyBag
    /\ starts = EmptyBag
    /\ coll \in InitialCollections
    /\ authDir = EmptyDir
    /\ authTar = NoTar
    /\ persists = EmptyBag
    /\ gen = 0
    /\ mongoSave = FALSE
    /\ pcLogout = NoLogout
    /\ pcShutdown = "none"
    /\ pcOpen = "none"
    /\ hist = [lastDelay |-> 0, attempt |-> 0, opened |-> FALSE, ver |-> 0,
               before |-> 0, cleanup |-> {}, deleted |-> {}, burstFires |-> 0,
               orphans |-> 0, lateStart |-> FALSE, lastCode |-> -1,
               packed |-> EmptyDir, intoEmpty |-> FALSE, restarted |-> FALSE,
               settled |-> "none", qr |-> "none"]

Init ==
    /\ botImpl \in BotImpls
    /\ authImpl \in AuthImpls
    /\ InitCommon
    /\ KeyStoreIdle
    /\ ModulesIdle
    /\ budget = [closes |-> MaxCloses, updates |-> MaxUpdates, faults |-> MaxFaults,
                 timeouts |-> MaxTimeouts, events |-> MaxEvents,
                 keys |-> 0, restarts |-> 0, qrs |-> MaxQrs]

\* ------------------------------------------------------------ initialize
\* an initialize that logs the failure and goes on (a faulty variant, used to test
\* StartupFailureFatal)
NeverFatal(ok) == FALSE
\* try { this.db = await connectDb() } catch (error) { process.exit(1) }
FatalAtStartup(ok) == ~ok

\* initialize(): connectDb, then startSock; a failed connectDb is fatal
initialize ==
    /\ Running /\ phase = "constructed"
    /\ \E ok \in Outcomes :
        /\ budget' = Spend(ok)
        /\ IF ~FatalAtStartup(ok)
           THEN /\ phase' = "initializing"
                /\ starts' = starts (+) One(NewRun(TRUE))
                /\ UNCHANGED <<proc, exitCause, timers, persists>>
           ELSE /\ Exit("startup")
                /\ UNCHANGED phase
    /\ UNCHANGED <<botImpl, authImpl, isShuttingDown, sock, sockUser,
                   reconnectInterval, coll, authDir, authTar, gen, mongoSave, pcLogout,
                   pcShutdown, hist>>
    /\ UNCHANGED <<pcOpen, stateKeys, keyHist, modVars>>

\* -------------------------------------------------------------- startSock
\* what the restore that finishes with this result leaves as the outcome of the last
\* restore: it counts when the restore ran alone (no other startSock, no archiving in
\* progress) and no failure was injected into it
Settles(result) ==
    IF BagCardinality(starts) > 1 THEN "void"
    ELSE IF /\ persists = EmptyBag
            /\ hist.settled # "void"
            /\ result \in {"restored", "absent", "corrupted-and-cleared"}
         THEN result
         ELSE "none"

\* a write of the store, the auth directory or the temporary archive by anything but
\* the restore ends the sequence of restores; it voids a restore that is in progress
Unsettled == IF starts = EmptyBag THEN "none" ELSE "void"

\* a start that skips the teardown (a faulty variant, used to test OneLiveSocket)
CleanupSkipped(s) == s
\* if (this.sock) { ev.removeAllListeners(); await this.sock.end(); this.sock = null }
Cleaned(s) == "null"

\* a start that resets the delay (a faulty variant, used to test ResetOnlyByOpen)
IntervalResetOnStart(ri) == BaseReconnectInterval
\* startSock assigns nothing to this.reconnectInterval
IntervalAfterStart(ri) == ri

\* startSock, first stretch: remove the listeners of the old socket, end it, null it
startSock ==
    /\ Running
    /\ \E r \in StartRuns("begin") :
        starts' = Step(r, [r EXCEPT !.pc = "findOne"])
    /\ sock' = Cleaned(sock)
    /\ sockUser' = FALSE
    /\ reconnectInterval' = IntervalAfterStart(reconnectInterval)
    /\ hist' = [hist EXCEPT !.lastCode = -1]
    /\ UNCHANGED <<botImpl, authImpl, proc, exitCause, phase, isShuttingDown,
                   timers, coll, authDir, authTar, persists, gen,
                   mongoSave, pcLogout, pcShutdown, budget>>
    /\ UNCHANGED <<pcOpen, stateKeys, keyHist, modVars>>

\* an ensureDir that empties the directory it finds (a faulty variant, used to test
\* AbsentRestoreChangesNothing)
ensureDirEmptied(dir) == EmptyDir
\* fs.ensureDir(AUTH_DIR): the directory is created when missing, its files are kept
ensureDir(dir) == dir

\* useMongoAuthState: fs.ensureDir(AUTH_DIR), then coll.findOne({_id: "session"})
restoreFindOne ==
    /\ Running
    /\ \E r \in StartRuns("findOne") : \E ok \in Outcomes :
        /\ budget' = Spend(ok)
        /\ starts' = Step(r,
              IF ok
              THEN IF hasSession(coll)
                   THEN [r EXCEPT !.pc = "writeFile", !.session = findOne(coll)]
                   ELSE [r EXCEPT !.pc = "create", !.result = "absent"]
              ELSE IF authImpl = "direct"
                   THEN [r EXCEPT !.pc = "create", !.result = "absent"]
                   ELSE [r EXCEPT !.pc = "create", !.result = "failed"])
        /\ hist' = [hist EXCEPT !.settled =
                        IF ~ok THEN Settles("failed")
                        ELSE IF hasSession(coll) THEN @
                        ELSE Settles("absent")]
    /\ authDir' = ensureDir(authDir)
    /\ UNCHANGED <<botImpl, authImpl, proc, exitCause, phase, isShuttingDown, sock,
                   sockUser, reconnectInterval, timers, coll, authTar,
                   persists, gen, mongoSave, pcLogout, pcShutdown>>
    /\ UNCHANGED <<pcOpen, stateKeys, keyHist, modVars>>

\* useMongoAuthState: fs.writeFile(AUTH_TAR, archiveBuffer)
restoreWriteFile ==
    /\ Running
    /\ \E r \in StartRuns("writeFile") :
        /\ authTar' = archiveOf(r.session)
        /\ starts' = Step(r, [r EXCEPT !.pc = "extract"])
    /\ UNCHANGED <<botImpl, authImpl, proc, exitCause, phase, isShuttingDown, sock,
                   sockUser, reconnectInterval, timers, coll, authDir, persists, gen,
                   mongoSave, pcLogout, pcShutdown, budget, hist>>
    /\ UNCHANGED <<pcOpen, stateKeys, keyHist, modVars>>

\* the validation after extraction: only the existence of creds.json is looked at
Validates(dir) == pathExists(dir, CREDS_PATH)

\* useMongoAuthState: tar.x, then the validation
restoreExtract ==
    /\ Running
    /\ \E r \in StartRuns("extract") :
        IF ~authTar.ok
        THEN /\ starts' = Step(r, [r EXCEPT !.pc = "cleanup"])
             /\ UNCHANGED authDir
        ELSE /\ authDir' = TarExtract(authTar, authDir)
             /\ starts' = Step(r,
                   IF Validates(authDir')
                   THEN [r EXCEPT !.pc = "finally", !.result = "restored"]
                   ELSE [r EXCEPT !.pc = "cleanup"])
    /\ hist' = [hist EXCEPT !.intoEmpty = authTar.ok /\ IsEmptyDir(authDir)]
    /\ UNCHANGED <<botImpl, authImpl, proc, exitCause, phase, isShuttingDown, sock,
                   sockUser, reconnectInterval, timers, coll, authTar, persists, gen,
                   mongoSave, pcLogout, pcShutdown, budget>>
    /\ UNCHANGED <<pcOpen, stateKeys, keyHist, modVars>>

\* does the corruption path swallow a failure of its own deleteOne
CleanupSwallows == authImpl = "direct"

\* the corruption path: coll.deleteOne, fs.emptyDir(AUTH_DIR)
cleanupSession ==
    /\ Running
    /\ \E r \in StartRuns("cleanup") : \E ok \in Outcomes :
        /\ budget' = Spend(ok)
        /\ IF ok /\ ~ClearThrows(coll)
           THEN /\ coll' = deleteOne(coll)
                /\ authDir' = EmptyDir
                /\ hist' = [hist EXCEPT !.deleted = @ \cup {"corruption"}]
                /\ starts' = Step(r, [r EXCEPT !.pc = "finally",
                                               !.result = "corrupted-and-cleared"])
           ELSE /\ UNCHANGED <<coll, authDir>>
                /\ hist' = [hist EXCEPT !.settled = "void"]
                /\ starts' = Step(r, [r EXCEPT !.pc = "finally",
                       !.result = IF CleanupSwallows THEN "corrupted-and-cleared"
                                  ELSE "failed"])
    /\ UNCHANGED <<botImpl, authImpl, proc, exitCause, phase, isShuttingDown, sock,
                   sockUser, reconnectInterval, timers, authTar, persists, gen,
                   mongoSave, pcLogout, pcShutdown>>
    /\ UNCHANGED <<pcOpen, stateKeys, keyHist, modVars>>

\* a finally block that leaves the file (a faulty variant, used to test
\* TempArchiveRemoved)
removeSkipped(tar) == tar
\* fs.remove(AUTH_TAR): the file is gone, whoever wrote it
remove(tar) == NoTar

\* finally: fs.remove(AUTH_TAR); useMongoAuthState returns (or rethrows)
restoreFinally ==
    /\ Running
    /\ \E r \in StartRuns("finally") :
        /\ starts' = Step(r, [r EXCEPT !.pc = "create",
                                       !.clean = ~hasSession(coll) /\ IsEmptyDir(authDir)])
        /\ hist' = [hist EXCEPT !.intoEmpty = FALSE, !.settled = Settles(r.result)]
    /\ authTar' = remove(authTar)
    /\ UNCHANGED <<botImpl, authImpl, proc, exitCause, phase, isShuttingDown, sock,
                   sockUser, reconnectInterval, timers, coll, authDir, persists, gen,
                   mongoSave, pcLogout, pcShutdown, budget>>
    /\ UNCHANGED <<pcOpen, stateKeys, keyHist, modVars>>

\* a startSock that keeps the saveCreds of the failed useMongoAuthState (a faulty
\* variant, used to test RestoreFailureFallsBack)
UsesMongoSaveAlways(result) == TRUE
\* try { useMongoAuthState() } catch { useMultiFileAuthState(this.authPath) }: after a
\* throw, state and saveCreds are the file-based ones
UsesMongoSave(result) == result # "failed"

\* startSock, last stretch: makeWASocket and ev.process, or the catch with its retry
makeWASocket ==
    /\ Running
    /\ \E r \in StartRuns("create") : \E ok \in Outcomes :
        /\ budget' = Spend(ok)
        /\ starts' = starts (-) One(r)
        /\ IF ok
           THEN /\ sock' = "connecting"
                /\ sockUser' = (botImpl = "part_007" /\ pathExists(authDir, CREDS_PATH))
                /\ gen' = gen + 1
                /\ mongoSave' = UsesMongoSave(r.result)
                /\ timers' = IF botImpl = "part_007"
                             THEN timers (+) One(Timer("connTimeout", gen + 1, 30000))
                             ELSE timers
                /\ phase' = IF r.first /\ botImpl # "part_007" THEN "ready" ELSE phase
                /\ hist' = [hist EXCEPT !.orphans = IF sock = "null" THEN @ ELSE @ + 1]
           ELSE /\ timers' = timers (+) One(Timer("retry", 0, InitRetryDelay))
                /\ phase' = IF r.first THEN "ready" ELSE phase
                /\ UNCHANGED <<sock, sockUser, gen, mongoSave, hist>>
    /\ UNCHANGED <<botImpl, authImpl, proc, exitCause, isShuttingDown,
                   reconnectInterval, coll, authDir, authTar, persists, pcLogout,
                   pcShutdown>>
    /\ UNCHANGED <<pcOpen, stateKeys, keyHist, modVars>>

\* ------------------------------------------------- connection.update events
\* a close branch that arms its timer twice (a faulty variant, used to test
\* OneReconnectPending)
setTimeoutTwice(bag, t) == bag (+) One(t) (+) One(t)
\* setTimeout(() => this.startSock(), delay): one more pending timer
setTimeout(bag, t) == bag (+) One(t)

\* the close branch of the connection.update handler
HandleClose(code, shutting) ==
    IF TakesCleanupBranch(code, shutting)
    THEN LET cause == IF code = LoggedOut THEN "loggedOutClose" ELSE "shutdownClose" IN
         /\ pcLogout' = IF pcLogout.stage = "none"
                        THEN [stage |-> "deleteOne", cause |-> cause]
                        ELSE pcLogout
         /\ hist' = [hist EXCEPT !.cleanup = @ \cup {cause}, !.lastCode = code]
         /\ UNCHANGED <<timers, starts, reconnectInterval>>
    ELSE IF shutting
    THEN /\ hist' = [hist EXCEPT !.lastCode = code]
         /\ UNCHANGED <<pcLogout, timers, starts, reconnectInterval>>
    ELSE /\ UNCHANGED pcLogout
         /\ IF botImpl = "part_006"
            THEN /\ starts' = starts (+) One(NewRun(FALSE))
                 /\ hist' = [hist EXCEPT !.lastCode = code]
                 /\ UNCHANGED <<timers, reconnectInterval>>
            ELSE /\ timers' = setTimeout(timers, Timer("reconnect", 0, ReconnectDelay))
                 /\ reconnectInterval' = IF botImpl = "bot"
                                         THEN NextInterval(reconnectInterval)
                                         ELSE reconnectInterval
                 /\ hist' = [hist EXCEPT !.lastDelay = ReconnectDelay,
                                         !.attempt = @ + 1,
                                         !.lastCode = code]
                 /\ UNCHANGED starts

\* the library reports connection: "close" with lastDisconnect.error.output.statusCode
connectionClose ==
    /\ Running /\ sock \in {"connecting", "open"}
    /\ CanSpend("closes")
    /\ budget' = Spent("closes")
    /\ sock' = "closed"
    /\ \E code \in CloseCodes : HandleClose(code, isShuttingDown)
    /\ UNCHANGED <<botImpl, authImpl, proc, exitCause, phase, isShuttingDown, sockUser,
                   coll, authDir, authTar, persists, gen, mongoSave, pcShutdown>>
    /\ UNCHANGED <<pcOpen, stateKeys, keyHist, modVars>>

\* the library reports connection: "open"
connectionOpen ==
    /\ Running /\ sock = "connecting"
    /\ sock' = "open"
    /\ sockUser' = (botImpl = "part_007")
    /\ reconnectInterval' = IF botImpl = "bot"
                            THEN IntervalAfterOpen(reconnectInterval)
                            ELSE reconnectInterval
    /\ timers' = IF botImpl = "part_007"
                 THEN ClearTimers(timers, "connTimeout", gen)
                 ELSE timers
    /\ phase' = IF botImpl = "part_007" /\ phase = "initializing" /\ gen = 1
                THEN "ready" ELSE phase
    /\ hist' = [hist EXCEPT !.attempt = 0, !.opened = TRUE, !.before = hist.attempt]
    /\ pcOpen' = "hooks"
    /\ UNCHANGED <<botImpl, authImpl, proc, exitCause, isShuttingDown, starts, coll,
                   authDir, authTar, persists, gen, mongoSave, pcLogout, pcShutdown,
                   budget, stateKeys, keyHist, modVars>>

\* a QR branch that lets the rejection of sendQRCode escape the handler (a faulty
\* variant, used to test QrChangesNothingElse)
QrHookRethrows(ok) == ok
\* try { await this.telegramBridge.sendQRCode(qr) } catch (error) { logger.warn(...) }
QrHookCaught(ok) == TRUE

\* the library reports a connection.update that carries a qr and no connection field:
\* the QR is printed on the terminal and, when the Telegram bridge takes it, sent
\* there; the close and open branches that follow in the handler are not entered
qrUpdate ==
    /\ Running /\ sock = "connecting"
    /\ CanSpend("qrs")
    /\ \E ok \in Outcomes :
        /\ budget' = [Spent("qrs") EXCEPT !.faults = IF ok THEN @ ELSE @ - 1]
        /\ hist' = [hist EXCEPT !.qr = IF ok THEN "sent" ELSE "shown"]
        /\ IF QrHookCaught(ok)
           THEN UNCHANGED <<proc, exitCause, timers, starts, persists>>
           ELSE Exit("unhandledRejection")
    /\ UNCHANGED <<botImpl, authImpl, phase, isShuttingDown, sock, sockUser,
                   reconnectInterval, coll, authDir, authTar, gen, mongoSave, pcLogout,
                   pcShutdown, pcOpen, stateKeys, keyHist, modVars>>

\* onConnectionOpen returns: the Telegram handlers are set up, the startup message is
\* sent (or has failed, which is logged), and the open branch of the handler ends
openHooksDone ==
    /\ Running /\ pcOpen = "hooks"
    /\ pcOpen' = "none"
    /\ UNCHANGED <<botImpl, authImpl, proc, exitCause, phase, isShuttingDown, sock,
                   sockUser, reconnectInterval, timers, starts, coll, authDir, authTar,
                   persists, gen, mongoSave, pcLogout, pcShutdown, budget, hist,
                   stateKeys, keyHist, modVars>>

\* the cleanup branch after its first await: coll.deleteOne({_id: "session"})
logoutDeleteOne ==
    /\ Alive /\ pcLogout.stage = "deleteOne"
    /\ \E ok \in Outcomes :
        /\ budget' = Spend(ok)
        /\ IF ok /\ ~ClearThrows(coll)
           THEN /\ coll' = deleteOne(coll)
                /\ hist' = [hist EXCEPT !.deleted = @ \cup {pcLogout.cause},
                                        !.settled = Unsettled]
           ELSE UNCHANGED <<coll, hist>>
    /\ pcLogout' = [pcLogout EXCEPT !.stage = "exit"]
    /\ UNCHANGED <<botImpl, authImpl, proc, exitCause, phase, isShuttingDown, sock,
                   sockUser, reconnectInterval, timers, starts, authDir, authTar,
                   persists, gen, mongoSave, pcShutdown>>
    /\ UNCHANGED <<pcOpen, stateKeys, keyHist, modVars>>

\* the cleanup branch ends in process.exit(1)
logoutExit ==
    /\ Running /\ pcLogout.stage = "exit"
    /\ Exit("loggedOut")
    /\ pcLogout' = [pcLogout EXCEPT !.stage = "done"]
    /\ UNCHANGED <<botImpl, authImpl, phase, isShuttingDown, sock, sockUser,
                   reconnectInterval, coll, authDir, authTar, gen, mongoSave,
                   pcShutdown, budget, hist>>
    /\ UNCHANGED <<pcOpen, stateKeys, keyHist, modVars>>

\* ------------------------------------------------------------------ timers
\* a reconnect or init-retry timer fires: () => this.startSock()
reconnectFire ==
    /\ Running
    /\ \E t \in PendingTimers("reconnect") \cup PendingTimers("retry") :
        timers' = timers (-) One(t)
    /\ starts' = starts (+) One(NewRun(FALSE))
    /\ hist' = [hist EXCEPT !.lateStart = @ \/ isShuttingDown, !.lastCode = -1]
    /\ UNCHANGED <<botImpl, authImpl, proc, exitCause, phase, isShuttingDown, sock,
                   sockUser, reconnectInterval, coll, authDir, authTar, persists, gen,
                   mongoSave, pcLogout, pcShutdown, budget>>
    /\ UNCHANGED <<pcOpen, stateKeys, keyHist, modVars>>

\* part_007: the 30 s connectionTimeout of a startWhatsApp attempt fires
connectionTimeout ==
    /\ Running
    /\ CanSpend("timeouts")
    /\ budget' = Spent("timeouts")
    /\ \E t \in PendingTimers("connTimeout") :
        IF sock = "null"
        THEN /\ Exit("uncaughtException")
             /\ UNCHANGED <<sock, sockUser, phase>>
        ELSE /\ UNCHANGED <<proc, exitCause, starts, persists>>
             /\ IF sockUser
                THEN /\ timers' = timers (-) One(t)
                     /\ UNCHANGED <<sock, sockUser, phase>>
                ELSE /\ timers' = (timers (-) One(t))
                                  (+) One(Timer("retry", 0, InitRetryDelay))
                     /\ sock' = "null"
                     /\ sockUser' = FALSE
                     /\ phase' = IF phase = "initializing" /\ t.gen = 1
                                 THEN "ready" ELSE phase
    /\ UNCHANGED <<botImpl, authImpl, isShuttingDown, reconnectInterval, coll, authDir,
                   authTar, gen, mongoSave, pcLogout, pcShutdown, hist>>
    /\ UNCHANGED <<pcOpen, stateKeys, keyHist, modVars>>

\* ---------------------------------------------------------------- shutdown
\* SIGINT/SIGTERM: bot.shutdown() sets the flag, then awaits the bridge
shutdown ==
    /\ Running /\ phase = "ready" /\ pcShutdown = "none"
    /\ isShuttingDown' = TRUE
    /\ pcShutdown' = "end"
    /\ UNCHANGED <<botImpl, authImpl, proc, exitCause, phase, sock, sockUser,
                   reconnectInterval, timers, starts, coll, authDir, authTar, persists,
                   gen, mongoSave, pcLogout, budget, hist>>
    /\ UNCHANGED <<pcOpen, stateKeys, keyHist, modVars>>

\* shutdown(): if (this.sock) await this.sock.end(); a live socket emits its close
\* event, with no error, to the handler still registered on it
shutdownEnd ==
    /\ Running /\ pcShutdown = "end"
    /\ pcShutdown' = "exit"
    /\ IF sock \in {"connecting", "open"}
       THEN /\ sock' = "closed"
            /\ HandleClose(NoStatusCode, isShuttingDown)
       ELSE UNCHANGED <<sock, pcLogout, hist, timers, starts, reconnectInterval>>
    /\ UNCHANGED <<botImpl, authImpl, proc, exitCause, phase, isShuttingDown, sockUser,
                   coll, authDir, authTar, persists, gen, mongoSave, budget>>
    /\ UNCHANGED <<pcOpen, stateKeys, keyHist, modVars>>

\* the signal handler of index.js: process.exit(0) once shutdown() has returned
shutdownExit ==
    /\ Alive /\ pcShutdown = "exit"
    /\ Exit("signal")
    /\ pcShutdown' = "done"
    /\ UNCHANGED <<botImpl, authImpl, phase, isShuttingDown, sock, sockUser,
                   reconnectInterval, coll, authDir, authTar, gen, mongoSave, pcLogout,
                   budget, hist>>
    /\ UNCHANGED <<pcOpen, stateKeys, keyHist, modVars>>

\* ------------------------------------------------------------- saveCreds
LiveSocket == sock \in {"connecting", "open"}

\* originalSaveCreds(): the credential data of the library is written to creds.json
WriteCreds(dir, v) == [dir EXCEPT ![CREDS_PATH] = Creds(v, MandatoryFields)]

\* fresh: the archive the run packed holds the creds.json the last saveCreds call wrote
PersistRun(g, pc, fresh) == [gen |-> g, pc |-> pc, data |-> NoTar, fresh |-> fresh]
HoldsCreds(ar, v) == <<CREDS_PATH, Creds(v, MandatoryFields)>> \in ar.entries
PersistRuns(pc) == {q \in BagToSet(persists) : q.pc = pc}

\* if (saveTimer) clearTimeout(saveTimer); saveTimer = setTimeout(..., 10000)
Reschedule(bag, g) ==
    ClearTimers(bag, "debounce", g) (+) One(Timer("debounce", g, DebounceInterval))

\* what a call of saveCreds adds to the observations
NoteCall ==
    [hist EXCEPT !.ver = @ + 1,
                 !.burstFires = IF PendingTimers("debounce") = {} THEN 0 ELSE @,
                 !.settled = Unsettled]

\* an exception of saveCreds leaves the ev.process handler as an unhandled rejection
Crashes == authImpl = "nocatch" /\ ~HandlerCatches

\* creds.update with the debounced saveCreds of part_003
saveCredsDebounced ==
    /\ Running /\ LiveSocket /\ mongoSave /\ authImpl = "debounced"
    /\ CanSpend("updates")
    /\ budget' = Spent("updates")
    /\ authDir' = WriteCreds(authDir, hist.ver + 1)
    /\ timers' = Reschedule(timers, gen)
    /\ hist' = NoteCall
    /\ UNCHANGED <<botImpl, authImpl, proc, exitCause, phase, isShuttingDown, sock,
                   sockUser, reconnectInterval, starts, coll, authTar, persists, gen,
                   mongoSave, pcLogout, pcShutdown>>
    /\ UNCHANGED <<pcOpen, stateKeys, keyHist, modVars>>

\* creds.update with a saveCreds that archives at once (part_004, mongoAuthState.js):
\* originalSaveCreds, then tar.c
saveCredsDirect ==
    /\ Running /\ LiveSocket /\ mongoSave /\ authImpl \in {"nocatch", "direct"}
    /\ CanSpend("updates")
    /\ budget' = Spent("updates")
    /\ authDir' = WriteCreds(authDir, hist.ver + 1)
    /\ authTar' = TarCreate(authDir')
    /\ persists' = persists (+) One(PersistRun(gen, "readFile", TRUE))
    /\ hist' = [NoteCall EXCEPT !.packed = authDir']
    /\ UNCHANGED <<botImpl, authImpl, proc, exitCause, phase, isShuttingDown, sock,
                   sockUser, reconnectInterval, timers, starts, coll, gen, mongoSave,
                   pcLogout, pcShutdown>>
    /\ UNCHANGED <<pcOpen, stateKeys, keyHist, modVars>>

\* creds.update when startSock fell back to useMultiFileAuthState: the file is
\* written, nothing is archived
saveCredsFile ==
    /\ Running /\ LiveSocket /\ ~mongoSave
    /\ CanSpend("updates")
    /\ budget' = Spent("updates")
    /\ authDir' = WriteCreds(authDir, hist.ver + 1)
    /\ hist' = NoteCall
    /\ UNCHANGED <<botImpl, authImpl, proc, exitCause, phase, isShuttingDown, sock,
                   sockUser, reconnectInterval, timers, starts, coll, authTar,
                   persists, gen, mongoSave, pcLogout, pcShutdown>>
    /\ UNCHANGED <<pcOpen, stateKeys, keyHist, modVars>>

\* timers of one delay fire in the order they were set
OldestDebounce(t) == \A u \in PendingTimers("debounce") : t.gen <= u.gen

\* the debounce timer fires: tar.c of auth_info into AUTH_TAR
saveTimerFire ==
    /\ Running
    /\ \E t \in PendingTimers("debounce") :
        /\ OldestDebounce(t)
        /\ timers' = timers (-) One(t)
        /\ persists' = persists (+)
               One(PersistRun(t.gen, "readFile", HoldsCreds(TarCreate(authDir), hist.ver)))
    /\ authTar' = TarCreate(authDir)
    /\ hist' = [hist EXCEPT !.burstFires = @ + 1, !.packed = authDir,
                            !.settled = Unsettled]
    /\ UNCHANGED <<botImpl, authImpl, proc, exitCause, phase, isShuttingDown, sock,
                   sockUser, reconnectInterval, starts, coll, authDir, gen, mongoSave,
                   pcLogout, pcShutdown, budget>>
    /\ UNCHANGED <<pcOpen, stateKeys, keyHist, modVars>>

\* a step of a persist run throws: the debounced callback logs and goes on to its
\* finally, the direct saveCreds of mongoAuthState.js logs and returns, the one of
\* part_004 rejects
PersistFails(q) ==
    /\ hist' = [hist EXCEPT !.settled = Unsettled]
    /\ IF Crashes
       THEN Exit("unhandledRejection")
       ELSE /\ persists' = IF authImpl = "debounced"
                           THEN (persists (-) One(q)) (+) One([q EXCEPT !.pc = "remove"])
                           ELSE persists (-) One(q)
            /\ UNCHANGED <<proc, exitCause, timers, starts>>

\* const data = await fs.readFile(AUTH_TAR)
persistReadFile ==
    /\ Running
    /\ \E q \in PersistRuns("readFile") :
        IF authTar = NoTar
        THEN PersistFails(q)
        ELSE /\ persists' = (persists (-) One(q))
                            (+) One([q EXCEPT !.pc = "updateOne", !.data = authTar])
             /\ hist' = [hist EXCEPT !.settled = Unsettled]
             /\ UNCHANGED <<proc, exitCause, timers, starts>>
    /\ UNCHANGED <<botImpl, authImpl, phase, isShuttingDown, sock, sockUser,
                   reconnectInterval, coll, authDir, authTar, gen, mongoSave, pcLogout,
                   pcShutdown, budget>>
    /\ UNCHANGED <<pcOpen, stateKeys, keyHist, modVars>>

\* coll.updateOne({_id: "session"}, {$set: {archive: data, ...}}, {upsert: true})
persistUpdateOne ==
    /\ Running
    /\ \E q \in PersistRuns("updateOne") : \E ok \in Outcomes :
        /\ budget' = Spend(ok)
        /\ IF ok
           THEN /\ coll' = updateOneUpsert(coll, q.data)
                /\ persists' = (persists (-) One(q)) (+) One([q EXCEPT !.pc = "remove"])
                /\ hist' = [hist EXCEPT !.settled = Unsettled]
                /\ UNCHANGED <<proc, exitCause, timers, starts>>
           ELSE /\ UNCHANGED coll
                /\ PersistFails(q)
    /\ UNCHANGED <<botImpl, authImpl, phase, isShuttingDown, sock, sockUser,
                   reconnectInterval, authDir, authTar, gen, mongoSave, pcLogout,
                   pcShutdown>>
    /\ UNCHANGED <<pcOpen, stateKeys, keyHist, modVars>>

\* fs.remove(AUTH_TAR): the end of a persist run
persistRemove ==
    /\ Running
    /\ \E q \in PersistRuns("remove") :
        persists' = persists (-) One(q)
    /\ authTar' = remove(authTar)
    /\ hist' = [hist EXCEPT !.settled = Unsettled]
    /\ UNCHANGED <<botImpl, authImpl, proc, exitCause, phase, isShuttingDown, sock,
                   sockUser, reconnectInterval, timers, starts, coll, authDir, gen,
                   mongoSave, pcLogout, pcShutdown, budget>>
    /\ UNCHANGED <<pcOpen, stateKeys, keyHist, modVars>>

\* ------------------------------------------------- key files and restarts
\* the library stores a signal key through state.keys.set: useMultiFileAuthState
\* writes one more file under the auth directory, saveCreds is not called
keysSet ==
    /\ Running /\ LiveSocket
    /\ CanSpend("keys")
    /\ budget' = Spent("keys")
    /\ \E k \in KeyPaths :
        /\ ~pathExists(authDir, k)
        /\ authDir' = [authDir EXCEPT ![k] = KeyContent]
    /\ hist' = [hist EXCEPT !.settled = Unsettled]
    /\ UNCHANGED <<botImpl, authImpl, proc, exitCause, phase, isShuttingDown, sock,
                   sockUser, reconnectInterval, timers, starts, coll, authTar,
                   persists, gen, mongoSave, pcLogout, pcShutdown>>
    /\ UNCHANGED <<pcOpen, stateKeys, keyHist, modVars>>

\* the process ends (crash, kill or exit) and main() of index.js runs again: a new
\* HyperWaBot is constructed; the collection survives, the working directory either
\* survives or is a fresh one
restart ==
    /\ CanSpend("restarts")
    /\ budget' = Spent("restarts")
    /\ proc' = "running"
    /\ exitCause' = "none"
    /\ phase' = "constructed"
    /\ isShuttingDown' = FALSE
    /\ sock' = "null"
    /\ sockUser' = FALSE
    /\ reconnectInterval' = BaseReconnectInterval
    /\ timers' = EmptyBag
    /\ starts' = EmptyBag
    /\ persists' = EmptyBag
    /\ gen' = 0
    /\ mongoSave' = FALSE
    /\ pcLogout' = NoLogout
    /\ pcShutdown' = "none"
    /\ pcOpen' = "none"
    /\ \E fresh \in BOOLEAN :
        /\ authDir' = IF fresh THEN EmptyDir ELSE authDir
        /\ authTar' = IF fresh THEN NoTar ELSE authTar
    /\ hist' = [hist EXCEPT !.restarted = TRUE, !.intoEmpty = FALSE, !.lastCode = -1,
                            !.settled = "none"]
    /\ UNCHANGED <<botImpl, authImpl, coll, stateKeys, keyHist, modVars>>

\* ------------------------------------------- key store of the document auth state
KeyTypes == {"pre-key", "session"}
KeyIds == {"1", "2"}
KeyRecords == {[data |-> "A"], [data |-> "B"]}

\* Array.prototype.join
RECURSIVE join(_, _)
join(ids, sep) ==
    IF ids = << >> THEN ""
    ELSE IF Len(ids) = 1 THEN ids[1] ELSE ids[1] \o sep \o join(Tail(ids), sep)

\* get: (type, ids) => { const key = `${type}-${ids.join('-')}`; return state.keys[key] }
get(keys, type, ids) ==
    LET key == type \o "-" \o join(ids, "-")
    IN  IF key \in DOMAIN keys THEN keys[key] ELSE Undefined

\* set: (data) => { for (const [key, value] of Object.entries(data)) state.keys[key] = value }
set(keys, data) ==
    [key \in DOMAIN keys \cup DOMAIN data |->
        IF key \in DOMAIN data THEN data[key] ELSE keys[key]]

\* what the library hands to keys.set: for some of the types, records by id
IdMaps == UNION {[I -> KeyRecords] : I \in SUBSET KeyIds \ {{}}}
SignalDataSets == UNION {[T -> IdMaps] : T \in SUBSET KeyTypes \ {{}}}
Pairs(data) == {<<type, id>> \in KeyTypes \X KeyIds :
                   type \in DOMAIN data /\ id \in DOMAIN data[type]}

\* keys: keysDoc?.data || {} -- nothing stored, or the keys document a saveCreds of an
\* earlier run has stored
LoadedKeys == {NoKeys, set(NoKeys, [type \in {"pre-key"} |-> [id \in {"1"} |-> [data |-> "A"]]])}

BotIdle ==
    UNCHANGED <<botImpl, authImpl, proc, exitCause, phase, isShuttingDown, sock, sockUser,
                reconnectInterval, timers, starts, coll, authDir, authTar, persists, gen,
                mongoSave, pcLogout, pcShutdown, pcOpen, budget, hist>>

\* a step of module m leaves the bot and every other module as they are
Frame(m) ==
    /\ BotIdle
    /\ UNCHANGED <<stateKeys, keyHist>>
    /\ IF m = "db" THEN TRUE ELSE UNCHANGED mongo
    /\ IF m = "config" THEN TRUE ELSE UNCHANGED config
    /\ IF m = "handler" THEN TRUE ELSE UNCHANGED cmd
    /\ IF m = "store" THEN TRUE ELSE UNCHANGED store

\* the library stores records: state.keys.set(data)
keyStoreSet ==
    /\ keyHist.ops < MaxKeyOps
    /\ \E data \in SignalDataSets :
        /\ stateKeys' = set(stateKeys, data)
        /\ keyHist' = [keyHist EXCEPT
              !.written = [pr \in DOMAIN keyHist.written \cup Pairs(data) |->
                              IF pr \in Pairs(data) THEN data[pr[1]][pr[2]]
                              ELSE keyHist.written[pr]],
              !.asked = << >>,
              !.ret = Undefined,
              !.ops = @ + 1]
    /\ BotIdle
    /\ UNCHANGED modVars

\* the library reads one record: state.keys.get(type, [id])
keyStoreGet ==
    /\ keyHist.ops < MaxKeyOps
    /\ \E type \in KeyTypes, id \in KeyIds :
        keyHist' = [keyHist EXCEPT !.asked = <<type, id>>,
                                   !.ret = get(stateKeys, type, <<id>>),
                                   !.ops = @ + 1]
    /\ UNCHANGED stateKeys
    /\ BotIdle
    /\ UNCHANGED modVars

\* ---------------------------------------------------------- specifications
Next ==
    \/ initialize
    \/ startSock
    \/ restoreFindOne
    \/ restoreWriteFile
    \/ restoreExtract
    \/ cleanupSession
    \/ restoreFinally
    \/ makeWASocket
    \/ connectionClose
    \/ connectionOpen
    \/ openHooksDone
    \/ qrUpdate
    \/ logoutDeleteOne
    \/ logoutExit
    \/ reconnectFire
    \/ connectionTimeout
    \/ shutdown
    \/ shutdownEnd
    \/ shutdownExit
    \/ saveCredsDebounced
    \/ saveCredsDirect
    \/ saveCredsFile
    \/ saveTimerFire
    \/ persistReadFile
    \/ persistUpdateOne
    \/ persistRemove

Spec == Init /\ [][Next]_vars

\* the bot of src/Core/bot.js alone, with enough close events for the delay to reach
\* its cap; no credential updates
InitBackoff ==
    /\ botImpl = "bot"
    /\ authImpl = "direct"
    /\ InitCommon
    /\ KeyStoreIdle
    /\ ModulesIdle
    /\ budget = [closes |-> MaxBackoffCloses, updates |-> 0, faults |-> MaxFaults,
                 timeouts |-> 0, events |-> MaxBackoffCloses, keys |-> 0, restarts |-> 0, qrs |-> 0]

NextBackoff ==
    \/ initialize
    \/ startSock
    \/ restoreFindOne
    \/ restoreWriteFile
    \/ restoreExtract
    \/ cleanupSession
    \/ restoreFinally
    \/ makeWASocket
    \/ connectionClose
    \/ connectionOpen
    \/ openHooksDone
    \/ logoutDeleteOne
    \/ logoutExit
    \/ reconnectFire
    \/ shutdown
    \/ shutdownEnd
    \/ shutdownExit

SpecBackoff == InitBackoff /\ [][NextBackoff]_vars

\* the bot of src/Core/bot.js with the debounced saveCreds of part_003: credentials
\* and key files are written, archived and stored, the process restarts and restores;
\* no close events, no injected failures
InitRestart ==
    /\ botImpl = "bot"
    /\ authImpl = "debounced"
    /\ InitCommon
    /\ KeyStoreIdle
    /\ ModulesIdle
    /\ budget = [closes |-> 0, updates |-> MaxUpdates, faults |-> 0, timeouts |-> 0,
                 events |-> MaxUpdates + MaxKeyWrites + MaxRestarts,
                 keys |-> MaxKeyWrites, restarts |-> MaxRestarts, qrs |-> 0]

NextRestart ==
    \/ initialize
    \/ startSock
    \/ restoreFindOne
    \/ restoreWriteFile
    \/ restoreExtract
    \/ cleanupSession
    \/ restoreFinally
    \/ makeWASocket
    \/ saveCredsDebounced
    \/ saveTimerFire
    \/ persistReadFile
    \/ persistUpdateOne
    \/ persistRemove
    \/ keysSet
    \/ restart

SpecRestart == InitRestart /\ [][NextRestart]_vars

\* the key store accessor of the document auth state alone (mongoAuthState.js 5-82):
\* the library stores and reads records, the bot does nothing
InitKeys ==
    /\ botImpl = "bot"
    /\ authImpl = "direct"
    /\ InitCommon
    /\ budget = [closes |-> 0, updates |-> 0, faults |-> 0, timeouts |-> 0,
                 events |-> 0, keys |-> 0, restarts |-> 0, qrs |-> 0]
    /\ stateKeys \in LoadedKeys
    /\ keyHist = KeyHistIdle
    /\ ModulesIdle

NextKeys ==
    \/ keyStoreSet
    \/ keyStoreGet

SpecKeys == InitKeys /\ [][NextKeys]_vars

\* ----------------------------------------------------- connectDb (src/utils/db.js)
\* the connectDb that tests client (lines 5-26) and the one that tests db (35-62)
DbImpls == {"client-guard", "db-guard"}

\* a call of connectDb up to its first await or its return: when the guard finds the
\* module variable set the handle is returned at once, else a MongoClient is made,
\* assigned to client, and its connect() awaited
connectDb ==
    /\ Frame("db")
    /\ mongo.n < MaxDbCalls
    /\ \E c \in {d \in DbCallers : mongo.calls[d].pc # "awaiting"} :
       LET handle == IF mongo.impl = "client-guard" THEN mongo.client ELSE mongo.db
           fresh == Len(mongo.status) + 1
       IN  mongo' =
             IF handle # 0
             THEN [mongo EXCEPT !.n = @ + 1,
                                !.calls[c] = [pc |-> "returned", on |-> 0, got |-> handle,
                                              gotStatus |-> mongo.status[handle]]]
             ELSE [mongo EXCEPT !.n = @ + 1,
                                !.client = fresh,
                                !.status = Append(@, "connecting"),
                                !.calls[c] = [pc |-> "awaiting", on |-> fresh, got |-> 0,
                                              gotStatus |-> "none"]]

\* the connect() a call awaits settles: on success the call goes on with
\* client.db(...), reading the module variable client as it is now (and the db-guard
\* version assigns the handle to db); on failure the call throws, client stays set
connectSettles ==
    /\ Frame("db")
    /\ \E c \in {d \in DbCallers : mongo.calls[d].pc = "awaiting"} :
       \E ok \in IF mongo.faults < MaxDbFaults THEN BOOLEAN ELSE {TRUE} :
        LET st == [mongo.status EXCEPT ![mongo.calls[c].on] =
                                           IF ok THEN "connected" ELSE "failed"]
        IN  mongo' =
              IF ok
              THEN [mongo EXCEPT !.status = st,
                                 !.db = IF mongo.impl = "db-guard" THEN mongo.client ELSE @,
                                 !.calls[c] = [pc |-> "returned", on |-> 0,
                                               got |-> mongo.client,
                                               gotStatus |-> st[mongo.client]]]
              ELSE [mongo EXCEPT !.status = st,
                                 !.faults = @ + 1,
                                 !.calls[c] = [pc |-> "threw", on |-> 0, got |-> 0,
                                               gotStatus |-> "none"]]

InitDb ==
    /\ botImpl = "bot"
    /\ authImpl = "direct"
    /\ InitCommon
    /\ KeyStoreIdle
    /\ budget = [closes |-> 0, updates |-> 0, faults |-> 0, timeouts |-> 0,
                 events |-> 0, keys |-> 0, restarts |-> 0, qrs |-> 0]
    /\ IdleExcept("db")
    /\ \E impl \in DbImpls : mongo = MongoIdle(impl)

NextDb ==
    \/ connectDb
    \/ connectSettles

SpecDb == InitDb /\ [][NextDb]_vars

\* ------------------------------------------- MongoConfig (src/utils/mongoConfig.js)
\* keys as key.split('.') gives them, and the values that are set
ConfigKeys == {<<"prefix">>, <<"bot", "name">>, <<"bot", "mode">>}
ConfigValues == {[v |-> "x"], [v |-> "y"]}

\* Map.prototype.get, and the property of an object
Lookup(m, k) == IF k \in DOMAIN m THEN m[k] ELSE Undefined

\* get(key) of an initialized MongoConfig, with no default value
configGet(cache, keys) ==
    LET value == Lookup(cache, keys[1])
    IN  IF Len(keys) = 1 \/ value = Undefined THEN value ELSE Lookup(value, keys[2])

\* the value set() puts under the root key: the value itself, or the cached root
\* object (or {}) with the last key assigned
rootValue(cache, keys, value) ==
    IF Len(keys) = 1 THEN value
    ELSE LET old == IF Lookup(cache, keys[1]) = Undefined THEN NoKeys ELSE cache[keys[1]]
         IN  [k \in DOMAIN old \cup {keys[2]} |-> IF k = keys[2] THEN value ELSE old[k]]

\* this.cache.set(rootKey, ...) -- before the await of updateOne
cacheSet(cache, k, v) == [r \in DOMAIN cache \cup {k} |-> IF r = k THEN v ELSE cache[r]]

\* set(key, value) up to its await: the cache is written, the updateOne is under way
configSet ==
    /\ Frame("config")
    /\ config.n < MaxConfigSets /\ config.pending = << >>
    /\ \E keys \in ConfigKeys, value \in ConfigValues :
        LET root == rootValue(config.cache, keys, value)
        IN  config' = [config EXCEPT
                !.n = @ + 1,
                !.cache = cacheSet(@, keys[1], root),
                !.pending = <<keys[1], root>>,
                !.last = [key |-> keys, value |-> value,
                          before |-> configGet(config.cache, keys),
                          outcome |-> "pending"]]

\* the updateOne of a set settles: the document of the root key is upserted and set
\* returns, or the write fails and set throws
configWrite ==
    /\ Frame("config")
    /\ config.pending # << >>
    /\ \E ok \in IF config.faults < MaxConfigFaults THEN BOOLEAN ELSE {TRUE} :
        config' = IF ok
                  THEN [config EXCEPT
                          !.store = cacheSet(@, config.pending[1], config.pending[2]),
                          !.pending = << >>,
                          !.last.outcome = "ok"]
                  ELSE [config EXCEPT !.pending = << >>, !.faults = @ + 1,
                                      !.last.outcome = "failed"]

InitConfig ==
    /\ botImpl = "bot"
    /\ authImpl = "direct"
    /\ InitCommon
    /\ KeyStoreIdle
    /\ budget = [closes |-> 0, updates |-> 0, faults |-> 0, timeouts |-> 0,
                 events |-> 0, keys |-> 0, restarts |-> 0, qrs |-> 0]
    /\ IdleExcept("config")
    /\ \E settings \in {NoKeys, cacheSet(NoKeys, "prefix", [v |-> "x"])} :
          config = ConfigIdle(settings)

NextConfig ==
    \/ configSet
    \/ configWrite

SpecConfig == InitConfig /\ [][NextConfig]_vars

\* ------------------------------------------------- MessageHandler (part_008)
\* user ids: bot.owner is "owner", bot.admins is ["admin"]
Users == {"owner", "admin", "guest"}

\* this.commandHandlers: the permissions of each registered command ("typing" is the
\* command of the presence module, part_002 155-161); "nosuch" is not registered
commandHandlers ==
    [c \in {"ping", "typing", "ban", "vip", "odd"} |->
        CASE c = "ping" -> [kind |-> "public", users |-> {}]
          [] c = "typing" -> [kind |-> "owner", users |-> {}]
          [] c = "ban" -> [kind |-> "admin", users |-> {}]
          [] c = "vip" -> [kind |-> "list", users |-> {"guest"}]
          [] OTHER -> [kind |-> "moderator", users |-> {}]]
CommandNames == DOMAIN commandHandlers \cup {"nosuch"}

\* a check of the block list that finds nobody (a faulty variant, used to test
\* PermissionsSafe)
neverBlocked(blockedUsers, userId) == FALSE
\* blockedUsers.includes(userId)
isBlocked(blockedUsers, userId) == userId \in blockedUsers

\* userId === ownerId || msg.key.fromMe
isOwner(userId, fromMe) == userId = "owner" \/ fromMe

checkPermissions(userId, fromMe, commandName, mode, blockedUsers) ==
    IF mode = "private" /\ ~isOwner(userId, fromMe) /\ userId \notin {"admin"} THEN FALSE
    ELSE IF isBlocked(blockedUsers, userId) THEN FALSE
    ELSE IF commandName \notin DOMAIN commandHandlers THEN FALSE
    ELSE LET permission == commandHandlers[commandName]
         IN  CASE permission.kind = "owner" -> isOwner(userId, fromMe)
               [] permission.kind = "admin" -> isOwner(userId, fromMe) \/ userId \in {"admin"}
               [] permission.kind = "public" -> TRUE
               [] OTHER -> permission.kind = "list" /\ userId \in permission.users

\* PresenceModule.stopTyping: "paused" is sent unless the flag is off (bot.sock is set)
stopTyping(enabled, composing) == IF ~enabled THEN composing ELSE FALSE

\* handleCommand up to checkPermissions: the command is parsed, startTyping sends
\* "composing" when the flag of the presence module is on, the message is marked read
handleCommand ==
    /\ Frame("handler")
    /\ cmd.pc \in {"idle", "returned"} /\ cmd.n < MaxCommands
    /\ \E user \in Users, fromMe \in BOOLEAN, command \in CommandNames,
          params \in {"on", "off", "none"} :
        /\ (command # "typing" => params = "none")
        /\ cmd' = [cmd EXCEPT !.pc = "permissions", !.n = @ + 1,
                              !.user = user, !.fromMe = fromMe,
                              !.command = command, !.params = params,
                              !.composing = cmd.enableTypingIndicators \/ @,
                              !.started = cmd.enableTypingIndicators,
                              !.permitted = "unknown", !.path = "none"]

\* checkPermissions and the rate limit: a refused command stops typing and returns, a
\* permitted one goes on to its handler (or to the unknown-command branch)
checkCommand ==
    /\ Frame("handler")
    /\ cmd.pc = "permissions"
    /\ LET ok == checkPermissions(cmd.user, cmd.fromMe, cmd.command, cmd.mode,
                                  cmd.blockedUsers)
           stopped == stopTyping(cmd.enableTypingIndicators, cmd.composing)
       IN  IF ~ok
           THEN cmd' = [cmd EXCEPT !.pc = "returned", !.permitted = "no",
                                   !.path = "denied", !.composing = stopped]
           ELSE \E canExecute \in IF cmd.rateLimiting THEN BOOLEAN ELSE {TRUE} :
                  cmd' = IF ~canExecute
                         THEN [cmd EXCEPT !.pc = "returned", !.permitted = "yes",
                                          !.path = "rateLimited", !.composing = stopped]
                         ELSE IF cmd.command \in DOMAIN commandHandlers
                         THEN [cmd EXCEPT !.pc = "executing", !.permitted = "yes"]
                         ELSE [cmd EXCEPT !.pc = "returned", !.permitted = "yes",
                                          !.path = "unknown", !.composing = stopped]

\* handler.execute raced against the 30 s timeout: the handler returns, throws, or the
\* timeout rejects first; then stopTyping. toggleTyping assigns the flag of the
\* presence module when its parameter is on or off, and returns
commandSettles ==
    /\ Frame("handler")
    /\ cmd.pc = "executing"
    /\ \E path \in IF cmd.command = "typing"
                    THEN {"success"} ELSE {"success", "exception", "timeout"} :
        LET enabled == IF cmd.command = "typing" /\ cmd.params # "none"
                       THEN cmd.params = "on"
                       ELSE cmd.enableTypingIndicators
        IN  cmd' = [cmd EXCEPT !.pc = "returned", !.path = path,
                               !.enableTypingIndicators = enabled,
                               !.composing = stopTyping(enabled, @)]

InitHandler ==
    /\ botImpl = "bot"
    /\ authImpl = "direct"
    /\ InitCommon
    /\ KeyStoreIdle
    /\ budget = [closes |-> 0, updates |-> 0, faults |-> 0, timeouts |-> 0,
                 events |-> 0, keys |-> 0, restarts |-> 0, qrs |-> 0]
    /\ IdleExcept("handler")
    /\ \E mode \in {"public", "private"}, blockedUsers \in {{}, {"guest"}, {"owner"}},
          rateLimiting \in BOOLEAN, typingIndicators \in BOOLEAN :
          cmd = HandlerIdle(mode, blockedUsers, rateLimiting, typingIndicators)

NextHandler ==
    \/ handleCommand
    \/ checkCommand
    \/ commandSettles

SpecHandler == InitHandler /\ [][NextHandler]_vars

\* --------------------------------------------- MongoStore (src/utils/mongoStore.js)
\* a Map of a chat is the sequence of its entries [id, messageTimestamp] in insertion
\* order; Map.prototype.set keeps the place of a key the Map has already
mapSet(entries, id, ts) ==
    IF \E i \in 1..Len(entries) : entries[i].id = id
    THEN [i \in 1..Len(entries) |->
             IF entries[i].id = id THEN [id |-> id, ts |-> ts] ELSE entries[i]]
    ELSE Append(entries, [id |-> id, ts |-> ts])

\* entries.sort((a, b) => (b[1].messageTimestamp || 0) - (a[1].messageTimestamp || 0)):
\* descending, equal timestamps stay in their order
RECURSIVE sort(_)
sort(entries) ==
    IF entries = << >> THEN << >>
    ELSE LET front == sort(SubSeq(entries, 1, Len(entries) - 1))
             e == entries[Len(entries)]
             i == Cardinality({j \in 1..Len(front) : front[j].ts >= e.ts})
         IN  SubSeq(front, 1, i) \o <<e>> \o SubSeq(front, i + 1, Len(front))

\* if (size > cacheSize) keep sort(...).slice(0, Math.floor(cacheSize * 0.8))
trim(entries) ==
    IF Len(entries) > cacheSize
    THEN SubSeq(sort(entries), 1, (8 * cacheSize) \div 10)
    ELSE entries

\* init(): loadFromDatabase puts the messages the query returns (the newest 10000 of
\* all chats together) into the Maps of their chats; here the answer is nothing, or
\* cacheSize + 1 messages of chat "a"
loadFromDatabase ==
    /\ Frame("store")
    /\ ~store.initialized /\ store.n = 0
    /\ \E loaded \in {<< >>, [i \in 1..(cacheSize + 1) |-> [id |-> i, ts |-> 1]]} :
        store' = [store EXCEPT
            !.initialized = TRUE,
            !.messages = IF loaded = << >> THEN @ ELSE [chatId \in {"a"} |-> loaded]]

\* upsertMessage(message): the message is set in the Map of its chat, and the Map is
\* trimmed when it has grown above cacheSize; a missing messageTimestamp counts as 0
upsertMessage ==
    /\ Frame("store")
    /\ store.n < MaxUpserts
    /\ \E chatId \in {"a", "b"}, msgId \in 1..(cacheSize + 1), ts \in 0..2 :
        LET old == IF chatId \in DOMAIN store.messages
                   THEN store.messages[chatId] ELSE << >>
            inserted == mapSet(old, msgId, ts)
        IN  store' = [store EXCEPT
                !.n = @ + 1,
                !.messages = [c \in DOMAIN @ \cup {chatId} |->
                                 IF c = chatId THEN trim(inserted) ELSE @[c]],
                !.last = [chatId |-> chatId, inserted |-> inserted,
                          kept |-> trim(inserted)]]

InitStore ==
    /\ botImpl = "bot"
    /\ authImpl = "direct"
    /\ InitCommon
    /\ KeyStoreIdle
    /\ budget = [closes |-> 0, updates |-> 0, faults |-> 0, timeouts |-> 0,
                 events |-> 0, keys |-> 0, restarts |-> 0, qrs |-> 0]
    /\ IdleExcept("store")
    /\ store = StoreIdle

NextStore ==
    \/ loadFromDatabase
    \/ upsertMessage

SpecStore == InitStore /\ [][NextStore]_vars

\* ------------------------------------------------------------- properties
\* the archive stored under _id "session" holds the creds.json of version v
StoredCreds(v) == hasSession(coll) /\ HoldsCreds(archiveOf(findOne(coll)), v)

\* the archive unpacks to a creds.json that lacks one of the mandatory fields
LacksMandatory(ar) ==
    \E e \in ar.entries : e[1] = CREDS_PATH /\ ~(MandatoryFields \subseteq e[2].fields)

\* useMongoAuthState has returned to startSock, which has not yet built the socket
Returned == StartRuns("create")

\* nothing is left that could still write the store: no debounce timer is pending,
\* no archive-and-upload run and no startSock is in progress
Quiescent ==
    /\ Alive /\ pcShutdown = "none" /\ pcLogout.stage = "none"
    /\ PendingTimers("debounce") = {}
    /\ persists = EmptyBag
    /\ starts = EmptyBag

\* C1: with the debounced saveCreds, a burst of calls less than 10 s apart leads to
\* exactly one archive-and-upload run, and the archive that run packs holds the
\* credentials the last call of the burst wrote
DebounceCoalescing ==
    authImpl = "debounced" =>
        /\ hist.burstFires <= 1
        /\ \A q \in BagToSet(persists) : q.fresh

\* C2: with the debounced saveCreds, when every timer has fired and every
\* archive-and-upload run has ended, with the database reachable throughout, the
\* stored archive holds the credentials the most recent saveCreds call wrote
EventualPersistence ==
    (authImpl = "debounced" /\ Quiescent /\ ~Faulted /\ hist.ver > 0) =>
        StoredCreds(hist.ver)

\* C3: once the logged-out close has been handled to its end, the session record is
\* absent and nothing that would start a socket is pending or in progress
LogoutTerminality ==
    (exitCause = "loggedOut" /\ hist.cleanup = {"loggedOutClose"} /\ ~Faulted) =>
        /\ ~hasSession(coll)
        /\ PendingTimers("reconnect") \cup PendingTimers("retry") = {}
        /\ starts = EmptyBag

\* C4: the logout cleanup runs only for a logged-out close, and the session record
\* is deleted only by that cleanup or by the corruption path of restore; shutdown,
\* with the close event its sock.end() produces, does neither
DeletedOnlyOnLogoutOrCorruption ==
    /\ hist.cleanup \subseteq {"loggedOutClose"}
    /\ hist.deleted \subseteq {"loggedOutClose", "corruption"}

\* C7: a stored archive whose creds.json lacks a mandatory field makes restore
\* report corrupted-and-cleared and leaves no session record behind
CorruptionClearsStore ==
    \A r \in Returned :
        (~Faulted /\ r.session # {} /\ LacksMandatory(archiveOf(r.session))) =>
            (r.result = "corrupted-and-cleared" /\ ~hasSession(coll))

\* C8: when restore returns from its corruption path, the session record is absent
\* and the auth directory is empty
CorruptionPathLeavesNothing ==
    \A r \in Returned : r.result = "corrupted-and-cleared" => r.clean

\* C9: at most one archive-and-upload run is between its pack step and its end
OnePersistInFlight == BagCardinality(persists) <= 1

\* C10: a persist step that throws never ends the process through the
\* unhandledRejection handler
PersistFailureNotFatal == exitCause # "unhandledRejection"

\* C5: for consecutive transient closes with no open in between, the n-th reconnect
\* delay (n = 0, 1, 2, ...) handed to setTimeout is min(1000 * 2^n, 30000):
\* 1000, 2000, 4000, 8000, 16000, 30000, 30000, ...
BackoffMonotonicity ==
    (botImpl = "bot" /\ hist.attempt > 0) =>
        hist.lastDelay = Min(BaseReconnectInterval * 2^(hist.attempt - 1),
                             maxReconnectInterval)

\* the cap has been reached and kept: the seventh consecutive close scheduled 30000
BackoffCapReached ==
    /\ botImpl = "bot"
    /\ hist.attempt = 7
    /\ hist.lastDelay = maxReconnectInterval
    /\ PendingTimers("reconnect") # {}

\* C6: once an open has been handled, the first transient close after it schedules
\* the base delay of 1000 ms, however many closes came before the open
BackoffReset ==
    (botImpl = "bot" /\ hist.opened /\ hist.attempt = 1) =>
        hist.lastDelay = BaseReconnectInterval

\* three closes doubled the delay, the socket opened, and the next close scheduled
\* the base delay again
ResetAfterDoubling ==
    /\ botImpl = "bot"
    /\ hist.opened
    /\ hist.before >= 3
    /\ hist.attempt = 1
    /\ hist.lastDelay = BaseReconnectInterval
    /\ PendingTimers("reconnect") # {}

\* C11: in the bot of bot.js every socket is created only after the socket before it
\* had its listeners removed and was ended, so no second socket with registered
\* listeners ever exists beside the current one
\* (part_007 is outside this statement: its 30 s timeout schedules a retry beside a
\* pending reconnect, and the two starts then each create a socket)
OneLiveSocket == botImpl = "bot" => hist.orphans = 0

\* a second socket is live, created by a reconnect after the first one was torn down
SecondSocketAfterTeardown ==
    /\ botImpl = "bot"
    /\ gen >= 2
    /\ LiveSocket
    /\ hist.orphans = 0

\* C12: once shutdown() has set isShuttingDown, no reconnect or init-retry timer
\* starts startSock any more
ShutdownSuppressesReconnect == ~hist.lateStart

ReconnectTimers == [t \in PendingTimers("reconnect") |-> CopiesIn(t, timers)]
ScheduledAttempts == BagCardinality(ReconnectTimers) + BagCardinality(starts)

\* C14: a close event with any status code but the logged-out one (a close without an
\* error or without a status code included), handled while the bot is not shutting
\* down, schedules exactly one reconnect attempt, starts no cleanup and leaves the
\* process running
TransientCloseReconnects ==
    [][(LiveSocket /\ sock' = "closed" /\ ~isShuttingDown /\ hist'.lastCode # LoggedOut)
          => /\ ScheduledAttempts' = ScheduledAttempts + 1
             /\ pcLogout' = pcLogout
             /\ proc' = "running"]_vars

\* a close without a status code was handled: one reconnect is pending, the process runs
ReconnectPendingAfterBareClose ==
    /\ hist.lastCode = NoStatusCode
    /\ ~isShuttingDown
    /\ sock = "closed"
    /\ PendingTimers("reconnect") # {}
    /\ pcLogout = NoLogout
    /\ Alive

\* C15: when the process has stopped after handling a logged-out close, no credential
\* or key file is left under the local auth directory
LogoutClearsAuthDir ==
    (proc = "exited" /\ pcLogout.stage = "done" /\ pcLogout.cause = "loggedOutClose")
        => IsEmptyDir(authDir)

PersistThenRestore ==
    \A r \in StartRuns("finally") :
        (/\ hist.restarted
         /\ r.result = "restored"
         /\ archiveOf(r.session) = TarCreate(hist.packed))
            => authDir = hist.packed

\* the last restore finished with one of its three outcomes and nothing has written the
\* store or the auth directory since
Settled(h) == h.settled \notin {"none", "void"}

AbsentRestoreChangesNothing ==
    [][\A r \in StartRuns("findOne") : \A r2 \in BagToSet(starts') :
          (/\ ~hasSession(coll)
           /\ budget' = budget
           /\ r2 # r
           /\ starts' = Step(r, r2))
              => /\ r2 = [r EXCEPT !.pc = "create", !.result = "absent"]
                 /\ coll' = coll
                 /\ authDir' = authDir
                 /\ authTar' = authTar]_vars

\* a reconnect found no record while creds.json was on disk: the restore reported absent,
\* the file is still there and no temporary archive exists
AbsentWithCredsOnDisk ==
    /\ ~Faulted
    /\ ~hasSession(coll)
    /\ pathExists(authDir, CREDS_PATH)
    /\ authTar = NoTar
    /\ \E r \in StartRuns("create") : r.result = "absent" /\ ~r.first

\* C20: in the step in which a restore that wrote the temporary archive finishes,
\* whatever its outcome (restored, corrupted-and-cleared, or an exception out of the
\* extraction or the cleanup), the temporary archive file is gone
TempArchiveRemoved ==
    [][\A r \in StartRuns("finally") : \A r2 \in BagToSet(starts') :
          (r2.pc = "create" /\ starts' = Step(r, r2)) => authTar' = NoTar]_vars

\* a restore whose cleanup threw has finished: the exception is on its way out of
\* useMongoAuthState and no temporary archive is left
FailedRestoreLeftNoArchive ==
    /\ authTar = NoTar
    /\ \E r \in StartRuns("create") : r.session # {} /\ r.result = "failed"

\* C21: the auth collection never holds more than one document under the _id "session",
\* whatever persists, restores and logout clears interleave
AtMostOneSession == Cardinality(findOne(coll)) <= 1

\* a record left by an earlier run of the process has been overwritten by a persist of
\* this run: still one document, now holding the creds.json written last
SessionOverwritten ==
    /\ hist.ver >= 1
    /\ StoredCreds(hist.ver)
    /\ Cardinality(coll) = 1
    /\ \E r \in BagToSet(starts) : r.session # {} /\ r.session # findOne(coll)

\* C22: a session record that a save of this run wrote carries a size field equal to the
\* byte length of its archive
SizeMatchesArchive ==
    \A d \in findOne(coll) :
        (\E v \in 1..MaxUpdates : HoldsCreds(d.archive, v)) => d.size = ByteLength(d.archive)

\* C23: the clear of the logout handling, run on a store that holds no session record
\* (the restore has cleared it before, or nothing was ever saved), raises no error and
\* leaves the store as it was, and a further clear would change nothing
ClearIdempotent ==
    [][(/\ pcLogout.stage = "deleteOne" /\ pcLogout'.stage = "exit"
        /\ budget' = budget
        /\ ~hasSession(coll))
          => /\ coll' = coll
             /\ pcLogout.cause \in hist'.deleted
             /\ deleteOne(coll') = coll']_vars

\* the restore cleared a corrupted session and, with no save in between, the logout
\* handling cleared the store again
ClearedTwice ==
    /\ hist.ver = 0
    /\ "corruption" \in hist.deleted
    /\ pcLogout = [stage |-> "exit", cause |-> "loggedOutClose"]
    /\ "loggedOutClose" \in hist.deleted
    /\ ~hasSession(coll)

\* C24: a connectDb that fails inside initialize ends the process at once with the
\* fatal exit, before startSock was called: no socket exists then or later
StartupFailureFatal ==
    /\ [][(phase = "constructed" /\ budget'.faults < budget.faults)
             => /\ proc' = "exited" /\ exitCause' = "startup"
                /\ starts' = EmptyBag]_vars
    /\ [](exitCause = "startup" => (proc = "exited" /\ gen = 0 /\ sock = "null"))

\* the database was unreachable at startup and the process has stopped
StoppedAtStartup ==
    /\ exitCause = "startup"
    /\ proc = "exited"
    /\ phase = "constructed"
    /\ Faulted

\* C25: the step in which useMongoAuthState throws (the query or the cleanup of the
\* restore failed) leaves the process running and startSock going on; the socket is then
\* created with the file-based auth state
RestoreFailureFallsBack ==
    /\ [][\A r \in BagToSet(starts) : \A r2 \in BagToSet(starts') :
             (r.result = "none" /\ r2.result = "failed" /\ starts' = Step(r, r2))
                => proc' = "running" /\ r2.pc \in {"finally", "create"}]_vars
    /\ [][\A r \in StartRuns("create") :
             (/\ r.result = "failed"
              /\ proc' = "running" /\ budget' = budget
              /\ starts' = starts (-) One(r))
                => sock' = "connecting" /\ gen' = gen + 1 /\ ~mongoSave']_vars

\* the restore of a reconnect failed and the bot of bot.js runs its second socket on
\* the file-based auth state
SecondSocketOnFileAuth ==
    /\ botImpl = "bot"
    /\ Alive
    /\ Faulted
    /\ gen = 2
    /\ LiveSocket
    /\ ~mongoSave

\* C26: the handling of a close event begins only when no handling of an earlier
\* connection.update event (the open branch with its awaited hooks) is still in progress
EventsOneAtATime ==
    [][(LiveSocket /\ sock' = "closed") => pcOpen = "none"]_vars

\* C27: no restore of the debounced auth state is past its fetch (writing the temp
\* archive, extracting into the auth directory, clearing a corrupted record or removing
\* the temp archive) while a debounce timer is pending or a persist run is in progress
RestoreBeforePersisters ==
    authImpl = "debounced" =>
        \A r \in BagToSet(starts) :
            r.pc \in {"writeFile", "extract", "cleanup", "finally"}
                => PendingTimers("debounce") = {} /\ persists = EmptyBag

\* C28: at most one debounce (persist) timer is pending in the process, whatever the
\* number of auth states and saveCreds closures that reconnects have built
OneDebounceTimer ==
    authImpl = "debounced" =>
        /\ Cardinality(PendingTimers("debounce")) <= 1
        /\ \A t \in PendingTimers("debounce") : timers[t] = 1

\* C29: the step that handles a connection.update carrying only a QR payload forwards
\* the QR (to the terminal, and to Telegram when that hook succeeds) and changes
\* nothing else: process, socket, delay, timers, start runs, store, auth directory,
\* temp archive and persist runs are as before, whether the Telegram hook failed or not
QrChangesNothingElse ==
    [][budget'.qrs < budget.qrs
          => /\ hist'.qr \in {"shown", "sent"}
             /\ hist' = [hist EXCEPT !.qr = hist'.qr]
             /\ UNCHANGED <<proc, exitCause, phase, isShuttingDown, sock, sockUser,
                            reconnectInterval, timers, starts, coll, authDir, authTar,
                            persists, gen, mongoSave, pcLogout, pcShutdown, pcOpen>>]_vars

\* the Telegram hook failed on a QR while a session was stored: the process runs on
\* with the socket still connecting
QrHookFailedBotRunsOn ==
    /\ hist.qr = "shown" /\ Faulted
    /\ Alive /\ sock = "connecting"
    /\ hasSession(coll)

\* C30: after keys.get(type, [id]) has returned, what it returned is the record that
\* keys.set last stored for (type, id), and undefined when none was stored
KeyStoreRoundTrip ==
    keyHist.asked # << >>
        => keyHist.ret = IF keyHist.asked \in DOMAIN keyHist.written
                         THEN keyHist.written[keyHist.asked]
                         ELSE Undefined

\* C31: no step replaces a local credential or key file by an older version of it: a
\* file that exists before and after a step holds a version at least as new as before
NoCredentialRollback ==
    [][\A p \in AuthPaths :
          (pathExists(authDir, p) /\ pathExists(authDir', p))
              => authDir'[p].ver >= authDir[p].ver]_vars

\* C32: when a 30 s connection timeout of part_007 fires, this.sock is not null, and if
\* the callback tears the socket down, the socket is the one created by the attempt
\* that armed the timer
TimeoutHitsOwnSocket ==
    [][budget'.timeouts < budget.timeouts
          => /\ sock # "null"
             /\ sock' # sock
                  => \E t \in PendingTimers("connTimeout") :
                        /\ t.gen = gen
                        /\ timers' = (timers (-) One(t))
                                      (+) One(Timer("retry", 0, InitRetryDelay))]_vars

\* C33: the reconnect timers and the init-retry timers that are pending are never more
\* than one together
OneReconnectPending ==
    botImpl = "bot" =>
        BagCardinality([t \in PendingTimers("reconnect") \cup PendingTimers("retry")
                            |-> CopiesIn(t, timers)]) <= 1

\* a step of a start had failed, a socket was created all the same or on the retry,
\* and it has closed: a reconnect timer is pending
ReconnectPendingAfterRetry ==
    /\ botImpl = "bot" /\ Alive /\ Faulted
    /\ PendingTimers("reconnect") # {}
    /\ gen >= 1

\* C34: the process has made at most one MongoClient, whatever the order in which the
\* callers of connectDb ran
OneMongoClient == Len(mongo.status) <= 1

\* C35: a handle that connectDb has returned came from a client whose connect() had
\* completed successfully when the call returned (so a call made during a connect in
\* progress waits, and a call after a failed connect connects again)
HandleFromConnectedClient ==
    \A c \in DbCallers :
        mongo.calls[c].pc = "returned" => mongo.calls[c].gotStatus = "connected"

\* C36: when set(key, value) has returned, get(key) gives value; when its database
\* write has failed, get(key) gives what it gave before the call
SetKeepsCacheConsistent ==
    /\ config.last.outcome = "ok"
          => configGet(config.cache, config.last.key) = config.last.value
    /\ config.last.outcome = "failed"
          => configGet(config.cache, config.last.key) = config.last.before

\* C37: when an execution of handleCommand that has started the typing indicator has
\* returned, the indicator is stopped
TypingStoppedOnReturn ==
    (cmd.pc = "returned" /\ cmd.started) => ~cmd.composing

\* C38: a command that checkPermissions has permitted has a registered handler, its
\* sender is not blocked, in private mode the sender is the owner (or the message is the
\* bot's own) or an admin, and an owner-only command comes from the owner or is the
\* bot's own message
PermissionsSafe ==
    cmd.permitted = "yes"
        => /\ cmd.command \in DOMAIN commandHandlers
           /\ cmd.user \notin cmd.blockedUsers
           /\ cmd.mode = "private"
                => (cmd.user = "owner" \/ cmd.fromMe \/ cmd.user = "admin")
           /\ commandHandlers[cmd.command].kind = "owner"
                => (cmd.user = "owner" \/ cmd.fromMe)

\* an owner-only command sent from the bot's own account in private mode by a user id
\* that is not the owner's was permitted
OwnerCommandFromMePermitted ==
    /\ cmd.permitted = "yes" /\ cmd.mode = "private"
    /\ cmd.fromMe /\ cmd.user = "guest"
    /\ commandHandlers[cmd.command].kind = "owner"

\* C39: after upsertMessage calls every chat of the message cache holds at most
\* cacheSize messages, and when the last call has pushed its chat above cacheSize the
\* chat holds floor(0.8 * cacheSize) messages, none older than a message that was dropped
MessageCacheBounded ==
    /\ store.n >= 1
          => \A chatId \in DOMAIN store.messages :
                Len(store.messages[chatId]) <= cacheSize
    /\ Len(store.last.inserted) > cacheSize
          => /\ Len(store.last.kept) = (8 * cacheSize) \div 10
             /\ \A i \in 1..Len(store.last.inserted) :
                   (\E j \in 1..Len(store.last.kept) :
                        store.last.kept[j] = store.last.inserted[i])
                   \/ (\A j \in 1..Len(store.last.kept) :
                          store.last.kept[j].ts >= store.last.inserted[i].ts)


====
